---- MODULE Spec2Model ----
\* TCP client stack of the ESP-AT network adapter (src/src/stack.rs,
\* src/src/adapter.rs): socket pool, URC reconciliation, chunked send and
\* buffered receive, modelled as one single-threaded state machine.
\*
\* The driver is single threaded.  A public operation is a sequence of
\* steps; the variable pc names the drain (process_urc_messages) the
\* operation is currently in.  While pc names a drain, the only steps are
\* urc(m) (check_urc returned Some(m)) and the operation's continuation
\* (check_urc returned None, the code after the drain runs up to the next
\* drain or to the return).  Between two operations the application may
\* call process_urc_messages itself; every specification below lets it,
\* except SpecAlloc, whose calls are socket() and close() only.
EXTENDS Integers, Sequences, FiniteSets, TLC

\* ------------------------------------------------------------------ bounds
NumSockets == 5
MaxLink == 1
MaxHandles == 1
MaxAvail == 2
RX_SIZE == 2
TX_SIZE == 2
MaxBuf == 3
MaxLen == 2 * TX_SIZE + 1
MaxCmds == MaxBuf + 1
MaxUnanswered == 2

Links == 0 .. (NumSockets - 1)
UrcLinks == 0 .. MaxLink

None == << >>
Some(x) == << x >>

Min(S) == CHOOSE x \in S : \A y \in S : x <= y
MinOf(a, b) == IF a < b THEN a ELSE b

\* ------------------------------------------------------------------- state
VARIABLES
    adapter,   \* the Adapter struct
    handles,   \* handles[l]: number of live Socket values with link_id = l
    pc,        \* "idle", or the drain the running operation is in
    cur,       \* locals of the running operation
    ret,       \* the last operation's return value (NoRet while one runs)
    cmds,      \* commands the running / last operation passed to client.send
    timer,     \* "stopped", "running", "elapsed"
    setup_failed, \* the mode-setup commands that failed and did not succeed since
    unanswered,   \* payload commands the module accepted and has not reported on
    polled        \* parity of the polls of check_urc that found a notification

vars == << adapter, handles, pc, cur, ret, cmds, timer, setup_failed, unanswered,
           polled >>

\* setup_failed after an enable function returned e: a command that was sent
\* and failed waits for its retry, one that succeeded does not.
NoteSetup(failed, e) ==
    IF e.sent = << >> THEN failed
    ELSE IF e.result = "Ok" THEN failed \ {e.sent[1].cmd}
    ELSE failed \cup {e.sent[1].cmd}

\* Adapter::new.
new ==
    [ joined |-> FALSE,
      ip_assigned |-> FALSE,
      multi_connections_enabled |-> FALSE,
      passive_mode_enabled |-> FALSE,
      sockets |-> [l \in Links |-> "Closed"],
      recv_byte_count |-> None,
      send_confirmed |-> None ]

\* The fields stack.rs uses and adapter.rs does not declare: the per-link
\* count of buffered bytes, the collision flag of connect and the reply of
\* the last receive-data command.
new_data_fields ==
    [ data_available |-> [l \in Links |-> 0],
      already_connected |-> FALSE,
      data |-> None ]

NoRet == [op |-> "none", link |-> 0, result |-> "none", n |-> 0]
\* before and reply record the last receive-data reply that was accounted:
\* data_available[link] before reduce_data_available, and the reply's length.
Cur0 == [link |-> 0, res |-> "Ok", len |-> 0, off |-> 0, buflen |-> 0, position |-> 0,
         before |-> 0, reply |-> 0]

\* A return value: the operation, its handle's link, Ok or the error, and
\* the number returned with Ok (a length; for is_connected 1 = true; for
\* join 2 * connected + ip_assigned).
Ret(op, link, result, n) == [op |-> op, link |-> link, result |-> result, n |-> n]
Cmd(name, link, len) == [cmd |-> name, link |-> link, len |-> len]

\* Outcomes of client.send as send_command sees them (adapter.rs 202-210).
CmdResults == {"ok", "err", "wouldblock"}

\* send_command: Ok, the command's own error, or Cmd::WOULD_BLOCK_ERROR.
send_command(r, errname) ==
    IF r = "ok" THEN "Ok"
    ELSE IF r = "err" THEN errname
    ELSE "UnexpectedWouldBlock"

\* -------------------------------------------------- notification reconciler
Urc(type, link, n) == [type |-> type, link |-> link, n |-> n]

\* handle_single_urc with a socket-closed notification freeing the slot at once.
handle_single_urc_frees_slot(a, m) ==
    CASE m.type = "WifiDisconnected" -> [a EXCEPT !.joined = FALSE, !.ip_assigned = FALSE]
      [] m.type = "ReceivedIP" -> [a EXCEPT !.ip_assigned = TRUE]
      [] m.type = "WifiConnected" -> [a EXCEPT !.joined = TRUE]
      [] m.type = "SocketConnected" -> [a EXCEPT !.sockets[m.link] = "Connected"]
      [] m.type = "SocketClosed" -> [a EXCEPT !.sockets[m.link] = "Closed"]
      [] m.type = "ReceivedBytes" -> [a EXCEPT !.recv_byte_count = Some(m.n)]
      [] m.type = "SendConfirmation" -> [a EXCEPT !.send_confirmed = Some(TRUE)]
      [] m.type = "SendFail" -> [a EXCEPT !.send_confirmed = Some(FALSE)]
      [] OTHER -> a

\* handle_single_urc with a station disconnect that keeps the address lease.
handle_single_urc_keeps_ip(a, m) ==
    CASE m.type = "WifiDisconnected" -> [a EXCEPT !.joined = FALSE]
      [] m.type = "ReceivedIP" -> [a EXCEPT !.ip_assigned = TRUE]
      [] m.type = "WifiConnected" -> [a EXCEPT !.joined = TRUE]
      [] m.type = "SocketConnected" -> [a EXCEPT !.sockets[m.link] = "Connected"]
      [] m.type = "SocketClosed" -> [a EXCEPT !.sockets[m.link] = "Closing"]
      [] m.type = "ReceivedBytes" -> [a EXCEPT !.recv_byte_count = Some(m.n)]
      [] m.type = "SendConfirmation" -> [a EXCEPT !.send_confirmed = Some(TRUE)]
      [] m.type = "SendFail" -> [a EXCEPT !.send_confirmed = Some(FALSE)]
      [] OTHER -> a

\* handle_single_urc, the arms of adapter.rs.
handle_single_urc(a, m) ==
    CASE m.type = "WifiDisconnected" -> [a EXCEPT !.joined = FALSE, !.ip_assigned = FALSE]
      [] m.type = "ReceivedIP" -> [a EXCEPT !.ip_assigned = TRUE]
      [] m.type = "WifiConnected" -> [a EXCEPT !.joined = TRUE]
      [] m.type = "Ready" -> a
      [] m.type = "SocketConnected" -> [a EXCEPT !.sockets[m.link] = "Connected"]
      [] m.type = "SocketClosed" -> [a EXCEPT !.sockets[m.link] = "Closing"]
      [] m.type = "ReceivedBytes" -> [a EXCEPT !.recv_byte_count = Some(m.n)]
      [] m.type = "SendConfirmation" -> [a EXCEPT !.send_confirmed = Some(TRUE)]
      [] m.type = "SendFail" -> [a EXCEPT !.send_confirmed = Some(FALSE)]
      [] OTHER -> a

\* The arms that feed the fields stack.rs reads and adapter.rs lacks:
\* bytes received(link, n), the already-connected report and the reply of
\* a receive-data command.
handle_data_urc(a, m) ==
    CASE m.type = "DataAvailable" ->
            [a EXCEPT !.data_available[m.link] = a.data_available[m.link] + m.n]
      [] m.type = "AlreadyConnected" -> [a EXCEPT !.already_connected = TRUE]
      [] m.type = "Data" -> [a EXCEPT !.data = Some(m.n)]

DataUrcTypes == {"DataAvailable", "AlreadyConnected", "Data"}

apply_urc(a, m) ==
    IF m.type \in DataUrcTypes THEN handle_data_urc(a, m) ELSE handle_single_urc(a, m)

Draining == {"close_urc1", "close_urc2", "connect_urc1", "connect_urc2",
             "is_connected_urc", "join_urc", "send_urc1", "send_urc2",
             "receive_urc1", "receive_urc2", "process_urc"}

\* The module answers each payload command it accepted with one report,
\* send confirmed or send failed, in the order of the commands.  Accepted
\* is unanswered after the module accepted one more payload command (counted
\* up to MaxUnanswered), Reported is unanswered after one report was drained.
\* The count is kept only where the module's reports are tied to its commands
\* (InitReports); where the module may report at any time it stays NotCounted.
NotCounted == 0 - 1
SendReports == {"SendConfirmation", "SendFail"}
Accepted(count) ==
    IF count = NotCounted THEN NotCounted ELSE MinOf(count + 1, MaxUnanswered)
Reported(count) == IF count > 0 THEN count - 1 ELSE count

\* polled after a poll of check_urc returned a notification: the parity
\* changes, so that a poll that found a notification is a step even when the
\* notification changes nothing in the adapter.  It is kept only where the
\* progress of a running call is stated (InitPolled).
Polled(parity) == IF parity = NotCounted THEN NotCounted ELSE 1 - parity

\* The bytes-received notifications the module sends in the specifications
\* below: it announces at most MaxAvail unread bytes per link.
WithinMaxAvail(m) ==
    m.type = "DataAvailable" => adapter.data_available[m.link] + m.n <= MaxAvail

\* One iteration of `while self.handle_single_urc() {}` that found a message.
urc(m) ==
    /\ pc \in Draining
    /\ adapter' = apply_urc(adapter, m)
    /\ unanswered' = IF m.type \in SendReports THEN Reported(unanswered) ELSE unanswered
    /\ polled' = Polled(polled)
    /\ UNCHANGED << handles, pc, cur, ret, cmds, timer >>
    /\ UNCHANGED setup_failed

\* ------------------------------------------------- allocation and teardown
\* enable_multiple_connections sending its command whatever the flag says.
enable_multiple_connections_always(a, r) ==
    IF r = "ok"
    THEN [a |-> [a EXCEPT !.multi_connections_enabled = TRUE], result |-> "Ok",
          sent |-> << Cmd("SetMultipleConnections", 0, 0) >>]
    ELSE [a |-> a, result |-> send_command(r, "EnablingMultiConnectionsFailed"),
          sent |-> << Cmd("SetMultipleConnections", 0, 0) >>]

\* enable_multiple_connections; r is the outcome of the command if it is sent.
enable_multiple_connections(a, r) ==
    IF a.multi_connections_enabled
    THEN [a |-> a, result |-> "Ok", sent |-> << >>]
    ELSE IF r = "ok"
    THEN [a |-> [a EXCEPT !.multi_connections_enabled = TRUE], result |-> "Ok",
          sent |-> << Cmd("SetMultipleConnections", 0, 0) >>]
    ELSE [a |-> a, result |-> send_command(r, "EnablingMultiConnectionsFailed"),
          sent |-> << Cmd("SetMultipleConnections", 0, 0) >>]

\* open_socket with the scan stopping one slot early.
open_socket_short_scan(a) ==
    LET free == {l \in Links : a.sockets[l] = "Closed" /\ l < NumSockets - 1} IN
    IF free # {}
    THEN [a |-> [a EXCEPT !.sockets[Min(free)] = "Open"], result |-> "Ok", link |-> Min(free)]
    ELSE [a |-> a, result |-> "NoSocketAvailable", link |-> 0]

\* open_socket: the first Closed slot becomes Open.
open_socket(a) ==
    LET free == {l \in Links : a.sockets[l] = "Closed"} IN
    IF free # {}
    THEN [a |-> [a EXCEPT !.sockets[Min(free)] = "Open"], result |-> "Ok", link |-> Min(free)]
    ELSE [a |-> a, result |-> "NoSocketAvailable", link |-> 0]

\* TcpClientStack::socket.
socket ==
    /\ pc = "idle"
    /\ \E r \in CmdResults :
        LET e == enable_multiple_connections(adapter, r) IN
        IF e.result # "Ok"
        THEN /\ adapter' = e.a
             /\ ret' = Ret("socket", 0, e.result, 0)
             /\ cmds' = e.sent
             /\ setup_failed' = NoteSetup(setup_failed, e)
             /\ UNCHANGED handles
        ELSE LET o == open_socket(e.a) IN
             /\ adapter' = o.a
             /\ ret' = Ret("socket", o.link, o.result, 0)
             /\ cmds' = e.sent
             /\ setup_failed' = NoteSetup(setup_failed, e)
             /\ handles' = IF o.result = "Ok"
                           THEN [handles EXCEPT ![o.link] = @ + 1]
                           ELSE handles
    /\ UNCHANGED << pc, cur, timer >>
    /\ UNCHANGED unanswered
    /\ UNCHANGED polled

\* TcpClientStack::close, entry: the handle is consumed, the first drain starts.
close(h) ==
    /\ pc = "idle"
    /\ handles[h] > 0
    /\ handles' = [handles EXCEPT ![h] = @ - 1]
    /\ pc' = "close_urc1"
    /\ cur' = [Cur0 EXCEPT !.link = h]
    /\ ret' = NoRet
    /\ cmds' = << >>
    /\ UNCHANGED << adapter, timer >>
    /\ UNCHANGED setup_failed
    /\ UNCHANGED polled
    /\ UNCHANGED unanswered

\* close sending the close command also for a slot that is Open or Closing.
close_1_always_commands ==
    /\ pc = "close_urc1"
    /\ \E r \in CmdResults :
        /\ cmds' = Append(cmds, Cmd("CloseSocket", cur.link, 0))
        /\ cur' = [cur EXCEPT !.res = send_command(r, "CloseError")]
        /\ pc' = "close_urc2"
        /\ UNCHANGED << adapter, ret >>
    /\ UNCHANGED << handles, timer >>
    /\ UNCHANGED setup_failed
    /\ UNCHANGED polled
    /\ UNCHANGED unanswered

\* close, lines 238-245: after the first drain.
close_1 ==
    /\ pc = "close_urc1"
    /\ IF adapter.sockets[cur.link] \in {"Closing", "Open"}
       THEN /\ adapter' = [adapter EXCEPT !.sockets[cur.link] = "Closed"]
            /\ pc' = "idle"
            /\ ret' = Ret("close", cur.link, "Ok", 0)
            /\ UNCHANGED cur
            /\ UNCHANGED cmds
       ELSE \E r \in CmdResults :
            /\ cmds' = Append(cmds, Cmd("CloseSocket", cur.link, 0))
            /\ cur' = [cur EXCEPT !.res = send_command(r, "CloseError")]
            /\ pc' = "close_urc2"
            /\ UNCHANGED << adapter, ret >>
    /\ UNCHANGED << handles, timer >>
    /\ UNCHANGED setup_failed
    /\ UNCHANGED polled
    /\ UNCHANGED unanswered

\* close returning the error before it marks the slot Closed.
close_2_returns_early ==
    /\ pc = "close_urc2"
    /\ LET result == IF adapter.sockets[cur.link] # "Closing" /\ cur.res = "Ok"
                     THEN "UnconfirmedSocketState"
                     ELSE cur.res
       IN /\ adapter' = IF result = "Ok"
                        THEN [adapter EXCEPT !.sockets[cur.link] = "Closed"]
                        ELSE adapter
          /\ ret' = Ret("close", cur.link, result, 0)
    /\ pc' = "idle"
    /\ UNCHANGED cur
    /\ UNCHANGED << handles, cmds, timer >>
    /\ UNCHANGED setup_failed
    /\ UNCHANGED polled
    /\ UNCHANGED unanswered

\* close, lines 247-255: after the second drain.
close_2 ==
    /\ pc = "close_urc2"
    /\ LET result == IF adapter.sockets[cur.link] # "Closing" /\ cur.res = "Ok"
                     THEN "UnconfirmedSocketState"
                     ELSE cur.res
       IN /\ adapter' = [adapter EXCEPT !.sockets[cur.link] = "Closed"]
          /\ ret' = Ret("close", cur.link, result, 0)
    /\ pc' = "idle"
    /\ UNCHANGED cur
    /\ UNCHANGED << handles, cmds, timer >>
    /\ UNCHANGED setup_failed
    /\ UNCHANGED polled
    /\ UNCHANGED unanswered


\* ------------------------------------------------------------------ connect
\* enable_passive_receiving_mode; r is the outcome of the command if it is sent.
enable_passive_receiving_mode(a, r) ==
    IF a.passive_mode_enabled
    THEN [a |-> a, result |-> "Ok", sent |-> << >>]
    ELSE IF r = "ok"
    THEN [a |-> [a EXCEPT !.passive_mode_enabled = TRUE], result |-> "Ok",
          sent |-> << Cmd("SetSocketReceivingMode", 0, 0) >>]
    ELSE [a |-> a, result |-> send_command(r, "EnablingPassiveSocketModeFailed"),
          sent |-> << Cmd("SetSocketReceivingMode", 0, 0) >>]

\* TcpClientStack::connect, entry.
connect(h) ==
    /\ pc = "idle"
    /\ handles[h] > 0
    /\ pc' = "connect_urc1"
    /\ cur' = [Cur0 EXCEPT !.link = h]
    /\ ret' = NoRet
    /\ cmds' = << >>
    /\ UNCHANGED << adapter, handles, timer >>
    /\ UNCHANGED setup_failed
    /\ UNCHANGED polled
    /\ UNCHANGED unanswered

\* connect, lines 150-161: after the first drain.  fam is the address family
\* of remote, which selects the connect command.
connect_1 ==
    /\ pc = "connect_urc1"
    /\ IF adapter.sockets[cur.link] = "Connected"
       THEN /\ ret' = Ret("connect", cur.link, "AlreadyConnected", 0)
            /\ pc' = "idle"
            /\ UNCHANGED cur
            /\ UNCHANGED << adapter, cmds, setup_failed >>
       ELSE \E r1 \in CmdResults, r2 \in CmdResults, fam \in {"ConnectV4", "ConnectV6"} :
            LET e == enable_passive_receiving_mode(adapter, r1) IN
            IF e.result # "Ok"
            THEN /\ adapter' = e.a
                 /\ ret' = Ret("connect", cur.link, e.result, 0)
                 /\ cmds' = e.sent
                 /\ setup_failed' = NoteSetup(setup_failed, e)
                 /\ pc' = "idle"
                 /\ UNCHANGED cur
            ELSE /\ adapter' = [e.a EXCEPT !.already_connected = FALSE]
                 /\ setup_failed' = NoteSetup(setup_failed, e)
                 /\ cmds' = Append(e.sent, Cmd(fam, cur.link, 0))
                 /\ cur' = [cur EXCEPT !.res = send_command(r2, "ConnectError")]
                 /\ pc' = "connect_urc2"
                 /\ UNCHANGED ret
    /\ UNCHANGED << handles, timer >>
    /\ UNCHANGED unanswered
    /\ UNCHANGED polled

\* connect resetting the counter before it looks at the outcome.
connect_2_resets_first ==
    /\ pc = "connect_urc2"
    /\ LET a == [adapter EXCEPT !.data_available[cur.link] = 0] IN
       IF adapter.already_connected
       THEN /\ adapter' = [a EXCEPT !.sockets[cur.link] = "Connected"]
            /\ ret' = Ret("connect", cur.link, "Ok", 0)
       ELSE IF cur.res # "Ok"
       THEN /\ ret' = Ret("connect", cur.link, cur.res, 0)
            /\ adapter' = a
       ELSE IF adapter.sockets[cur.link] # "Connected"
       THEN /\ ret' = Ret("connect", cur.link, "UnconfirmedSocketState", 0)
            /\ adapter' = a
       ELSE /\ adapter' = a
            /\ ret' = Ret("connect", cur.link, "Ok", 0)
    /\ pc' = "idle"
    /\ UNCHANGED cur
    /\ UNCHANGED << handles, cmds, timer >>
    /\ UNCHANGED setup_failed
    /\ UNCHANGED polled
    /\ UNCHANGED unanswered

\* connect propagating the command's error before it looks at the collision flag.
connect_2_result_first ==
    /\ pc = "connect_urc2"
    /\ IF cur.res # "Ok"
       THEN /\ ret' = Ret("connect", cur.link, cur.res, 0)
            /\ UNCHANGED adapter
       ELSE IF adapter.already_connected
       THEN /\ adapter' = [adapter EXCEPT !.sockets[cur.link] = "Connected"]
            /\ ret' = Ret("connect", cur.link, "Ok", 0)
       ELSE IF adapter.sockets[cur.link] # "Connected"
       THEN /\ ret' = Ret("connect", cur.link, "UnconfirmedSocketState", 0)
            /\ UNCHANGED adapter
       ELSE /\ adapter' = [adapter EXCEPT !.data_available[cur.link] = 0]
            /\ ret' = Ret("connect", cur.link, "Ok", 0)
    /\ pc' = "idle"
    /\ UNCHANGED cur
    /\ UNCHANGED << handles, cmds, timer >>
    /\ UNCHANGED setup_failed
    /\ UNCHANGED polled
    /\ UNCHANGED unanswered

\* connect trusting the command's result without the observed state.
connect_2_trusts_command ==
    /\ pc = "connect_urc2"
    /\ IF adapter.already_connected
       THEN /\ adapter' = [adapter EXCEPT !.sockets[cur.link] = "Connected"]
            /\ ret' = Ret("connect", cur.link, "Ok", 0)
       ELSE IF cur.res # "Ok"
       THEN /\ ret' = Ret("connect", cur.link, cur.res, 0)
            /\ UNCHANGED adapter
       ELSE /\ adapter' = [adapter EXCEPT !.data_available[cur.link] = 0]
            /\ ret' = Ret("connect", cur.link, "Ok", 0)
    /\ pc' = "idle"
    /\ UNCHANGED cur
    /\ UNCHANGED << handles, cmds, timer >>
    /\ UNCHANGED setup_failed
    /\ UNCHANGED polled
    /\ UNCHANGED unanswered

\* connect, lines 164-176: after the second drain.
connect_2 ==
    /\ pc = "connect_urc2"
    /\ IF adapter.already_connected
       THEN /\ adapter' = [adapter EXCEPT !.sockets[cur.link] = "Connected"]
            /\ ret' = Ret("connect", cur.link, "Ok", 0)
       ELSE IF cur.res # "Ok"
       THEN /\ ret' = Ret("connect", cur.link, cur.res, 0)
            /\ UNCHANGED adapter
       ELSE IF adapter.sockets[cur.link] # "Connected"
       THEN /\ ret' = Ret("connect", cur.link, "UnconfirmedSocketState", 0)
            /\ UNCHANGED adapter
       ELSE /\ adapter' = [adapter EXCEPT !.data_available[cur.link] = 0]
            /\ ret' = Ret("connect", cur.link, "Ok", 0)
    /\ pc' = "idle"
    /\ UNCHANGED cur
    /\ UNCHANGED << handles, cmds, timer >>
    /\ UNCHANGED setup_failed
    /\ UNCHANGED polled
    /\ UNCHANGED unanswered

\* ------------------------------------------------------------- is_connected
\* Adapter::process_urc_messages called by the application between two
\* operations, entry: the drain starts.
process_urc_messages ==
    /\ pc = "idle"
    /\ pc' = "process_urc"
    /\ cur' = Cur0
    /\ ret' = NoRet
    /\ cmds' = << >>
    /\ UNCHANGED << adapter, handles, timer >>
    /\ UNCHANGED setup_failed
    /\ UNCHANGED polled
    /\ UNCHANGED unanswered

\* check_urc returned None: the call returns ().
process_urc_messages_1 ==
    /\ pc = "process_urc"
    /\ ret' = Ret("process_urc_messages", 0, "Ok", 0)
    /\ pc' = "idle"
    /\ UNCHANGED cur
    /\ UNCHANGED << adapter, handles, cmds, timer >>
    /\ UNCHANGED setup_failed
    /\ UNCHANGED polled
    /\ UNCHANGED unanswered

is_connected(h) ==
    /\ pc = "idle"
    /\ handles[h] > 0
    /\ pc' = "is_connected_urc"
    /\ cur' = [Cur0 EXCEPT !.link = h]
    /\ ret' = NoRet
    /\ cmds' = << >>
    /\ UNCHANGED << adapter, handles, timer >>
    /\ UNCHANGED setup_failed
    /\ UNCHANGED polled
    /\ UNCHANGED unanswered

is_connected_1 ==
    /\ pc = "is_connected_urc"
    /\ ret' = Ret("is_connected", cur.link, "Ok",
                  IF adapter.sockets[cur.link] = "Connected" THEN 1 ELSE 0)
    /\ pc' = "idle"
    /\ UNCHANGED cur
    /\ UNCHANGED << adapter, handles, cmds, timer >>
    /\ UNCHANGED setup_failed
    /\ UNCHANGED polled
    /\ UNCHANGED unanswered

\* --------------------------------------------------------------------- join
MaxSsidLen == 32
MaxKeyLen == 63

\* Adapter::join with an ssid of ssid_len bytes and a key of key_len bytes:
\* set_station_mode, connect_access_point, then the drain.
join(ssid_len, key_len) ==
    /\ pc = "idle"
    /\ \E r1 \in CmdResults, r2 \in CmdResults :
        LET mode == send_command(r1, "ModeError")
            station == << Cmd("WifiMode", 0, 0) >>
            fail(result, sent) ==
                /\ ret' = Ret("join", 0, result, 0)
                /\ cmds' = sent
                /\ UNCHANGED pc
        IN IF mode # "Ok" THEN fail(mode, station)
           ELSE IF ssid_len > MaxSsidLen THEN fail("InvalidSSDLength", station)
           ELSE IF key_len > MaxKeyLen THEN fail("InvalidPasswordLength", station)
           ELSE IF r2 # "ok"
           THEN fail(send_command(r2, "ConnectError"),
                     Append(station, Cmd("AccessPointConnect", 0, 0)))
           ELSE /\ ret' = NoRet
                /\ cmds' = Append(station, Cmd("AccessPointConnect", 0, 0))
                /\ pc' = "join_urc"
    /\ UNCHANGED << adapter, handles, cur, timer >>
    /\ UNCHANGED setup_failed
    /\ UNCHANGED polled
    /\ UNCHANGED unanswered

\* join, lines 131-134: the JoinState returned after the drain.
join_1 ==
    /\ pc = "join_urc"
    /\ ret' = Ret("join", 0, "Ok", (IF adapter.joined THEN 2 ELSE 0)
                                   + (IF adapter.ip_assigned THEN 1 ELSE 0))
    /\ pc' = "idle"
    /\ UNCHANGED << adapter, handles, cur, cmds, timer >>
    /\ UNCHANGED setup_failed
    /\ UNCHANGED polled
    /\ UNCHANGED unanswered

\* ------------------------------------------------------------------ receive
\* Buffer::buffer_space, get_next_length, is_full, over (buffer.len(), position).
buffer_space(buflen, position) == buflen - position

get_next_length(buflen, position) ==
    IF buffer_space(buflen, position) > RX_SIZE
    THEN RX_SIZE
    ELSE buffer_space(buflen, position)

is_full(buflen, position) ==
    IF buflen = 0 THEN TRUE ELSE position >= buflen

\* Buffer::append checking the reply against the whole buffer, not the space left.
append_checks_capacity(buflen, position, k) ==
    IF k > buflen
    THEN [result |-> "ReceiveOverflow", position |-> position]
    ELSE [result |-> "Ok", position |-> position + k]

\* Buffer::append of a reply of k bytes: the new position, or the overflow error.
append(buflen, position, k) ==
    IF k > buffer_space(buflen, position)
    THEN [result |-> "ReceiveOverflow", position |-> position]
    ELSE [result |-> "Ok", position |-> position + k]

\* reduce_data_available without the clamp, in usize arithmetic of 8 bits.
reduce_data_available_wraps(available, length) ==
    (available - length) % 256

\* reduce_data_available: the new value of data_available[link_id].
reduce_data_available(available, length) ==
    IF available < length THEN 0 ELSE available - length

\* TcpClientStack::receive into a buffer of buflen bytes, entry.
receive(h, buflen) ==
    /\ pc = "idle"
    /\ handles[h] > 0
    /\ pc' = "receive_urc1"
    /\ cur' = [Cur0 EXCEPT !.link = h, !.buflen = buflen]
    /\ ret' = NoRet
    /\ cmds' = << >>
    /\ UNCHANGED << adapter, handles, timer >>
    /\ UNCHANGED setup_failed
    /\ UNCHANGED polled
    /\ UNCHANGED unanswered

\* The log of commands after one more command of receive's loop.  The loop
\* can issue any number of commands (the module may keep answering with
\* empty replies); the log keeps the first MaxCmds - 1 of them and the last.
Logged(log, c) ==
    IF Len(log) < MaxCmds THEN Append(log, c) ELSE [log EXCEPT ![MaxCmds] = c]

\* The head of the while loop of receive (line 213) with the adapter a and
\* the locals c: the next receive-data command, or the return of buffer.len().
receive_loop(a, c) ==
    IF a.data_available[c.link] > 0 /\ ~is_full(c.buflen, c.position)
    THEN \E r \in CmdResults :
         /\ cmds' = Logged(cmds, Cmd("ReceiveData", c.link,
                                     get_next_length(c.buflen, c.position)))
         /\ IF r = "ok"
            THEN /\ pc' = "receive_urc2"
                 /\ cur' = c
                 /\ adapter' = a
                 /\ UNCHANGED ret
            ELSE /\ pc' = "idle"
                 /\ cur' = c
                 /\ adapter' = a
                 /\ ret' = Ret("receive", c.link, send_command(r, "ReceiveFailed"), 0)
    ELSE /\ pc' = "idle"
         /\ cur' = c
         /\ adapter' = a
         /\ ret' = Ret("receive", c.link, "Ok", c.position)
         /\ UNCHANGED cmds

\* receive entering the loop without the WouldBlock test.
receive_1_no_would_block ==
    /\ pc = "receive_urc1"
    /\ receive_loop(adapter, cur)
    /\ UNCHANGED << handles, timer >>
    /\ UNCHANGED setup_failed
    /\ UNCHANGED polled
    /\ UNCHANGED unanswered

\* receive, lines 207-215: after the first drain.
receive_1 ==
    /\ pc = "receive_urc1"
    /\ IF adapter.data_available[cur.link] = 0
       THEN /\ ret' = Ret("receive", cur.link, "WouldBlock", 0)
            /\ pc' = "idle"
            /\ UNCHANGED cur
            /\ UNCHANGED << adapter, cmds >>
       ELSE receive_loop(adapter, cur)
    /\ UNCHANGED << handles, timer >>
    /\ UNCHANGED setup_failed
    /\ UNCHANGED polled
    /\ UNCHANGED unanswered

\* receive, lines 218-225 and the next turn of the loop: after the drain that
\* follows a receive-data command.
receive_2 ==
    /\ pc = "receive_urc2"
    /\ IF adapter.data = None
       THEN /\ ret' = Ret("receive", cur.link, "ReceiveFailed(InvalidResponse)", 0)
            /\ pc' = "idle"
            /\ UNCHANGED cur
            /\ UNCHANGED << adapter, cmds >>
       ELSE LET k == adapter.data[1]
                a == [adapter EXCEPT
                        !.data = None,
                        !.data_available[cur.link] =
                            reduce_data_available(adapter.data_available[cur.link], k)]
                b == append(cur.buflen, cur.position, k)
                c == [cur EXCEPT !.position = b.position,
                                 !.before = adapter.data_available[cur.link],
                                 !.reply = k]
            IN IF b.result # "Ok"
               THEN /\ ret' = Ret("receive", cur.link, b.result, 0)
                    /\ pc' = "idle"
                    /\ cur' = c
                    /\ adapter' = a
                    /\ UNCHANGED cmds
               ELSE receive_loop(a, c)
    /\ UNCHANGED << handles, timer >>
    /\ UNCHANGED setup_failed
    /\ UNCHANGED polled
    /\ UNCHANGED unanswered

\* --------------------------------------------------------------------- send
\* assert_socket_connected without the test for a slot that is Closing.
assert_socket_connected_no_closing(a, link) ==
    IF a.sockets[link] # "Connected" THEN "SocketUnconnected"
    ELSE "Ok"

\* assert_socket_connected.
assert_socket_connected(a, link) ==
    IF a.sockets[link] = "Closing" THEN "ClosingSocket"
    ELSE IF a.sockets[link] # "Connected" THEN "SocketUnconnected"
    ELSE "Ok"

\* The length of the chunk of buffer.chunks(TX_SIZE) that starts at offset off.
chunk_len(len, off) == MinOf(TX_SIZE, len - off)

\* TcpClientStack::send of a buffer of len bytes, entry.
send(h, len) ==
    /\ pc = "idle"
    /\ handles[h] > 0
    /\ pc' = "send_urc1"
    /\ cur' = [Cur0 EXCEPT !.link = h, !.len = len]
    /\ ret' = NoRet
    /\ cmds' = << >>
    /\ UNCHANGED << adapter, handles, timer >>
    /\ UNCHANGED setup_failed
    /\ UNCHANGED polled
    /\ UNCHANGED unanswered

\* One turn of the for loop of send (lines 192-195) up to the first drain of
\* send_chunk (lines 264-271), with the adapter a and the locals c: the
\* prepare command, the reset of the transfer accounting, the payload
\* command and the start of the timer; or, after the last chunk, the return.
send_loop(a, c) ==
    IF c.off < c.len
    THEN \E r1 \in CmdResults, r2 \in CmdResults, start_ok \in BOOLEAN :
         LET n == chunk_len(c.len, c.off)
             prepare == Append(cmds, Cmd("TransmissionPrepare", c.link, n))
             cleared == [a EXCEPT !.send_confirmed = None, !.recv_byte_count = None]
             fail(result, aa, sent, count) ==
                /\ ret' = Ret("send", c.link, result, 0)
                /\ adapter' = aa
                /\ cmds' = sent
                /\ pc' = "idle"
                /\ cur' = c
                /\ unanswered' = count
                /\ UNCHANGED timer
         IN IF r1 # "ok"
            THEN fail(send_command(r1, "TransmissionStartFailed"), a, prepare, unanswered)
            ELSE IF r2 # "ok"
            THEN fail(send_command(r2, "SendFailed(command)"), cleared,
                      Append(prepare, Cmd("Transmission", c.link, n)), unanswered)
            ELSE IF ~start_ok
            THEN fail("TimerError", cleared,
                      Append(prepare, Cmd("Transmission", c.link, n)),
                      Accepted(unanswered))
            ELSE /\ adapter' = cleared
                 /\ cmds' = Append(prepare, Cmd("Transmission", c.link, n))
                 /\ timer' = "running"
                 /\ pc' = "send_urc2"
                 /\ cur' = c
                 /\ unanswered' = Accepted(unanswered)
                 /\ UNCHANGED ret
    ELSE /\ ret' = Ret("send", c.link, "Ok", c.len)
         /\ pc' = "idle"
         /\ cur' = c
         /\ adapter' = a
         /\ UNCHANGED << cmds, timer, unanswered >>

\* send, lines 190-194: after the first drain.
send_1 ==
    /\ pc = "send_urc1"
    /\ LET state == assert_socket_connected(adapter, cur.link) IN
       IF state # "Ok"
       THEN /\ ret' = Ret("send", cur.link, state, 0)
            /\ pc' = "idle"
            /\ UNCHANGED cur
            /\ UNCHANGED << adapter, cmds, timer, unanswered >>
       ELSE send_loop(adapter, cur)
    /\ UNCHANGED handles
    /\ UNCHANGED setup_failed
    /\ UNCHANGED polled

\* send_chunk going on to the next chunk whatever the confirmation says.
send_2_ignores_send_fail ==
    /\ pc = "send_urc2"
    /\ LET n == chunk_len(cur.len, cur.off)
           fail(result, sent) ==
                /\ ret' = Ret("send", cur.link, result, 0)
                /\ cmds' = sent
                /\ pc' = "idle"
                /\ UNCHANGED cur
                /\ UNCHANGED << adapter, unanswered >>
       IN IF adapter.send_confirmed # None
          THEN send_loop(adapter, [cur EXCEPT !.off = cur.off + n])
          ELSE \E wait_ok \in BOOLEAN :
               IF ~wait_ok
               THEN fail("TimerError", cmds) /\ UNCHANGED timer
               ELSE IF timer = "elapsed"
               THEN fail("SendFailed(Timeout)", Append(cmds, Cmd("Reset", 0, 0)))
                    /\ timer' = "stopped"
               ELSE UNCHANGED vars
    /\ UNCHANGED handles
    /\ UNCHANGED setup_failed
    /\ UNCHANGED polled

\* send_chunk polling the timer before it looks at the confirmation.
send_2_timer_first ==
    /\ pc = "send_urc2"
    /\ LET n == chunk_len(cur.len, cur.off)
           fail(result, sent) ==
                /\ ret' = Ret("send", cur.link, result, 0)
                /\ cmds' = sent
                /\ pc' = "idle"
                /\ UNCHANGED cur
                /\ UNCHANGED << adapter, unanswered >>
       IN \E wait_ok \in BOOLEAN :
          IF ~wait_ok
          THEN fail("TimerError", cmds) /\ UNCHANGED timer
          ELSE IF timer = "elapsed"
          THEN fail("SendFailed(Timeout)", Append(cmds, Cmd("Reset", 0, 0)))
               /\ timer' = "stopped"
          ELSE IF adapter.send_confirmed # None
          THEN IF ~adapter.send_confirmed[1]
               THEN fail("SendFailed(Error)", Append(cmds, Cmd("Reset", 0, 0)))
                    /\ UNCHANGED timer
               ELSE IF adapter.recv_byte_count # None /\ adapter.recv_byte_count[1] # n
               THEN fail("PartialSend", cmds) /\ UNCHANGED timer
               ELSE send_loop(adapter, [cur EXCEPT !.off = cur.off + n])
          ELSE UNCHANGED vars
    /\ UNCHANGED handles
    /\ UNCHANGED setup_failed
    /\ UNCHANGED polled

\* send_chunk polling on after the timer has elapsed.
send_2_never_times_out ==
    /\ pc = "send_urc2"
    /\ LET n == chunk_len(cur.len, cur.off)
           fail(result, sent) ==
                /\ ret' = Ret("send", cur.link, result, 0)
                /\ cmds' = sent
                /\ pc' = "idle"
                /\ UNCHANGED cur
                /\ UNCHANGED << adapter, unanswered >>
       IN IF adapter.send_confirmed # None
          THEN IF ~adapter.send_confirmed[1]
               THEN fail("SendFailed(Error)", Append(cmds, Cmd("Reset", 0, 0)))
                    /\ UNCHANGED timer
               ELSE IF adapter.recv_byte_count # None /\ adapter.recv_byte_count[1] # n
               THEN fail("PartialSend", cmds) /\ UNCHANGED timer
               ELSE send_loop(adapter, [cur EXCEPT !.off = cur.off + n])
          ELSE \E wait_ok \in BOOLEAN :
               IF ~wait_ok
               THEN fail("TimerError", cmds) /\ UNCHANGED timer
               ELSE UNCHANGED vars
    /\ UNCHANGED handles
    /\ UNCHANGED setup_failed
    /\ UNCHANGED polled

\* send_chunk, lines 273-299: after a drain of the confirmation wait.
\* wait_ok is whether timer.wait() works; it is called only while
\* send_confirmed is None.
send_2 ==
    /\ pc = "send_urc2"
    /\ LET n == chunk_len(cur.len, cur.off)
           fail(result, sent) ==
                /\ ret' = Ret("send", cur.link, result, 0)
                /\ cmds' = sent
                /\ pc' = "idle"
                /\ UNCHANGED cur
                /\ UNCHANGED << adapter, unanswered >>
       IN IF adapter.send_confirmed # None
          THEN IF ~adapter.send_confirmed[1]
               THEN fail("SendFailed(Error)", Append(cmds, Cmd("Reset", 0, 0)))
                    /\ UNCHANGED timer
               ELSE IF adapter.recv_byte_count # None /\ adapter.recv_byte_count[1] # n
               THEN fail("PartialSend", cmds) /\ UNCHANGED timer
               ELSE send_loop(adapter, [cur EXCEPT !.off = cur.off + n])
          ELSE \E wait_ok \in BOOLEAN :
               IF ~wait_ok
               THEN fail("TimerError", cmds) /\ UNCHANGED timer
               ELSE IF timer = "elapsed"
               THEN fail("SendFailed(Timeout)", Append(cmds, Cmd("Reset", 0, 0)))
                    /\ timer' = "stopped"
               ELSE UNCHANGED vars
    /\ UNCHANGED handles
    /\ UNCHANGED setup_failed
    /\ UNCHANGED polled

\* The countdown started by send_chunk runs out.  Only timer.wait() of the
\* confirmation wait reads the timer, so only that wait is followed.
timer_elapses ==
    /\ timer = "running"
    /\ pc = "send_urc2"
    /\ timer' = "elapsed"
    /\ UNCHANGED << adapter, handles, pc, cur, ret, cmds >>
    /\ UNCHANGED setup_failed
    /\ UNCHANGED polled
    /\ UNCHANGED unanswered

\* --------------------------------------------------------- specifications
Constructed ==
    /\ adapter = new @@ new_data_fields
    /\ handles = [l \in Links |-> 0]
    /\ pc = "idle"
    /\ cur = Cur0
    /\ ret = NoRet
    /\ cmds = << >>
    /\ timer = "stopped"
    /\ setup_failed = {}

Init == Constructed /\ unanswered = NotCounted /\ polled = NotCounted

\* The same state, in front of a module that owes no report.
InitReports == Constructed /\ unanswered = 0 /\ polled = NotCounted

\* The same state, with the polls that find a notification told apart.
InitPolled == Constructed /\ unanswered = NotCounted /\ polled = 0

LiveHandles == {l \in Links : handles[l] > 0}

\* Notifications about socket state, for every link of the pool.
UrcsAlloc ==
    {Urc(t, l, 0) : t \in {"SocketConnected", "SocketClosed"}, l \in Links}

\* The pool under sequences of socket() and close() calls alone, with
\* arbitrary socket notifications: close() drains them.
NextAlloc ==
    \/ socket
    \/ \E h \in Links : close(h)
    \/ close_1
    \/ close_2
    \/ \E m \in UrcsAlloc : urc(m)

SpecAlloc == Init /\ [][NextAlloc]_vars

\* The socket life cycle: every operation that reads or writes a slot's state.
NextLife ==
    \/ socket
    \/ \E h \in Links : close(h)
    \/ close_1
    \/ close_2
    \/ \E h \in Links : connect(h)
    \/ connect_1
    \/ connect_2
    \/ \E h \in Links : is_connected(h)
    \/ is_connected_1
    \/ process_urc_messages
    \/ process_urc_messages_1
    \/ \E m \in UrcsAlloc : urc(m)

SpecLife == Init /\ [][NextLife]_vars

\* Notifications of the receive path, for the links 0 .. MaxLink.
UrcsRecv ==
    {Urc("DataAvailable", l, n) : l \in UrcLinks, n \in 1 .. MaxAvail}
    \cup {Urc("Data", 0, k) : k \in 0 .. RX_SIZE}

\* receive() on at most MaxHandles open sockets into buffers of 0 .. MaxBuf bytes.
NextRecv ==
    \/ (Cardinality(LiveHandles) < MaxHandles /\ socket)
    \/ \E h \in Links, buflen \in 0 .. MaxBuf : receive(h, buflen)
    \/ receive_1
    \/ receive_2
    \/ process_urc_messages
    \/ process_urc_messages_1
    \/ \E m \in UrcsRecv : WithinMaxAvail(m) /\ urc(m)

SpecRecv == Init /\ [][NextRecv]_vars

\* Notifications that move the counters of the links 0 .. MaxLink and let
\* connect() and receive() on link 0 succeed.
UrcsData ==
    UrcsRecv \cup {Urc("SocketConnected", 0, 0)}

\* Every public operation of a caller that holds one socket at a time.
NextData ==
    \/ (LiveHandles = {} /\ socket)
    \/ \E h \in Links : close(h)
    \/ close_1
    \/ close_2
    \/ \E h \in Links : connect(h)
    \/ connect_1
    \/ connect_2
    \/ \E h \in Links : is_connected(h)
    \/ is_connected_1
    \/ join(MaxSsidLen, MaxKeyLen)
    \/ join_1
    \/ \E h \in Links : send(h, 1)
    \/ send_1
    \/ send_2
    \/ timer_elapses
    \/ \E h \in Links : receive(h, MaxBuf)
    \/ receive_1
    \/ receive_2
    \/ process_urc_messages
    \/ process_urc_messages_1
    \/ \E m \in UrcsData : WithinMaxAvail(m) /\ urc(m)

SpecData == Init /\ [][NextData]_vars

\* Notifications of the send path.
UrcsSend ==
    {Urc("SocketConnected", l, 0) : l \in UrcLinks}
    \cup {Urc("ReceivedBytes", 0, c) : c \in 1 .. TX_SIZE}
    \cup {Urc(t, 0, 0) : t \in {"SendConfirmation", "SendFail"}}

NextSend ==
    \/ (Cardinality(LiveHandles) < MaxHandles /\ socket)
    \/ \E h \in Links : connect(h)
    \/ connect_1
    \/ connect_2
    \/ \E h \in Links, len \in 0 .. MaxLen : send(h, len)
    \/ send_1
    \/ send_2
    \/ timer_elapses
    \/ process_urc_messages
    \/ process_urc_messages_1
    \/ \E m \in UrcsSend : urc(m)

SpecSend == Init /\ [][NextSend]_vars

\* Notifications of the connect path, for the links 0 .. MaxLink: the socket
\* state, the collision report and a backlog of received bytes.
UrcsConn ==
    {Urc(t, l, 0) : t \in {"SocketConnected", "SocketClosed", "AlreadyConnected"},
                    l \in UrcLinks}
    \cup {Urc("DataAvailable", l, MaxAvail) : l \in UrcLinks}

\* connect() among the operations that share its slot, on at most MaxHandles
\* open sockets.
NextConn ==
    \/ (Cardinality(LiveHandles) < MaxHandles /\ socket)
    \/ \E h \in Links : close(h)
    \/ close_1
    \/ close_2
    \/ \E h \in Links : connect(h)
    \/ connect_1
    \/ connect_2
    \/ \E h \in Links : is_connected(h)
    \/ is_connected_1
    \/ process_urc_messages
    \/ process_urc_messages_1
    \/ \E m \in UrcsConn : WithinMaxAvail(m) /\ urc(m)

SpecConn == Init /\ [][NextConn]_vars

\* Notifications a drain of join() can meet: the station's, the module's
\* ready and unrecognized lines, and socket state for the links 0 .. MaxLink.
UrcsJoin ==
    {Urc(t, 0, 0) : t \in {"WifiConnected", "ReceivedIP", "WifiDisconnected",
                           "Ready", "Unknown"}}
    \cup {Urc(t, l, 0) : t \in {"SocketConnected", "SocketClosed"}, l \in UrcLinks}

\* Lengths of ssid and key on both sides of the limits of connect_access_point.
SsidLens == {0, MaxSsidLen, MaxSsidLen + 1}
KeyLens == {0, MaxKeyLen, MaxKeyLen + 1}

\* Repeated calls of join().
NextJoin ==
    \/ \E s \in SsidLens, k \in KeyLens : join(s, k)
    \/ join_1
    \/ process_urc_messages
    \/ process_urc_messages_1
    \/ \E m \in UrcsJoin : urc(m)

SpecJoin == Init /\ [][NextJoin]_vars

\* Notifications for the six operations of the stack: socket state for the
\* links 0 .. MaxLink, a send confirmation, and one received byte on link 0
\* with the reply that delivers it.
UrcsOps ==
    {Urc(t, l, 0) : t \in {"SocketConnected", "SocketClosed"}, l \in UrcLinks}
    \cup {Urc("SendConfirmation", 0, 0), Urc("DataAvailable", 0, 1), Urc("Data", 0, 1)}

\* The six operations of TcpClientStack on at most MaxHandles open sockets.
NextOps ==
    \/ (Cardinality(LiveHandles) < MaxHandles /\ socket)
    \/ \E h \in Links : close(h)
    \/ close_1
    \/ close_2
    \/ \E h \in Links : connect(h)
    \/ connect_1
    \/ connect_2
    \/ \E h \in Links : is_connected(h)
    \/ is_connected_1
    \/ \E h \in Links : send(h, 1)
    \/ send_1
    \/ send_2
    \/ timer_elapses
    \/ \E h \in Links : receive(h, 1)
    \/ receive_1
    \/ receive_2
    \/ process_urc_messages
    \/ process_urc_messages_1
    \/ \E m \in UrcsOps : WithinMaxAvail(m) /\ urc(m)

SpecOps == Init /\ [][NextOps]_vars

\* send() with the countdown started by send_chunk running out.  Nothing is
\* assumed about the notifications: the module may have one ready at every
\* poll, and then the drain does not end.
SpecSendLive ==
    /\ Init
    /\ [][NextSend]_vars
    /\ WF_vars(timer_elapses)

\* receive() under the scheduling of the code: a running call takes its
\* next step, which is a poll that finds a notification or, when the poll
\* finds none, the code after the drain.  Nothing is assumed about the
\* notifications and replies: the module may have one ready at every poll,
\* and then the drain does not end.
SpecRecvLive ==
    /\ InitPolled
    /\ [][NextRecv]_vars
    /\ WF_vars(pc # "idle" /\ NextRecv)

\* send() against a module that reports on each accepted payload command
\* once, in order, and at any later time: a report is drained only while one
\* is owed, and the caller starts a send() with fewer than MaxUnanswered
\* reports owed, so that the count is exact.
NextReports ==
    \/ (Cardinality(LiveHandles) < MaxHandles /\ socket)
    \/ \E h \in Links : connect(h)
    \/ connect_1
    \/ connect_2
    \/ \E h \in Links, len \in {1, TX_SIZE + 1} :
            unanswered < MaxUnanswered /\ send(h, len)
    \/ send_1
    \/ send_2
    \/ timer_elapses
    \/ process_urc_messages
    \/ process_urc_messages_1
    \/ \E m \in UrcsSend : (m.type \in SendReports => unanswered > 0) /\ urc(m)

SpecReports == InitReports /\ [][NextReports]_vars

\* ------------------------------------------------------------------ claims
NonClosed(a) == {l \in DOMAIN a.sockets : a.sockets[l] # "Closed"}

\* C1: over socket() and close() calls with arbitrary socket notifications,
\* socket() returns NoSocketAvailable exactly when every slot of the pool
\* is non-Closed at the call, and at most NumSockets slots are non-Closed.
C1_SocketFailsExactlyWhenPoolFull ==
    /\ [](Cardinality(NonClosed(adapter)) <= NumSockets)
    /\ [][socket => ((ret'.result = "NoSocketAvailable")
                        <=> (\A l \in Links : adapter.sockets[l] # "Closed"))]_vars

\* socket() has just failed on a full pool.
C1_Witness ==
    /\ ret.op = "socket"
    /\ ret.result = "NoSocketAvailable"
    /\ Cardinality(NonClosed(adapter)) = NumSockets

\* C2: at most one live handle names a slot; a slot named by a live handle
\* is not Closed (only close(), which consumes the handle, makes it Closed);
\* socket() hands out only a slot that is Closed at the call and marks it Open.
C2_OneHandlePerSlot ==
    /\ [](\A l \in Links : /\ handles[l] <= 1
                           /\ handles[l] = 1 => adapter.sockets[l] # "Closed")
    /\ [][(socket /\ ret'.result = "Ok")
            => /\ adapter.sockets[ret'.link] = "Closed"
               /\ adapter'.sockets[ret'.link] = "Open"
               /\ handles[ret'.link] = 0]_vars

\* socket() has handed out slot 0 again (it was closed before) while the
\* handle of slot 1 lives and slot 1 was closed by the remote side.
C2_Witness ==
    /\ ret.op = "socket"
    /\ ret.result = "Ok"
    /\ ret.link = 0
    /\ handles[0] = 1
    /\ handles[1] = 1
    /\ adapter.sockets[0] = "Open"
    /\ adapter.sockets[1] = "Closing"

\* C3: when close() has returned, with Ok, a close error or
\* UnconfirmedSocketState, the slot of the consumed handle is Closed.
C3_CloseLeavesSlotClosed ==
    ret.op = "close" => adapter.sockets[ret.link] = "Closed"

\* close() has returned the close command's error.
C3_Witness ==
    /\ ret.op = "close"
    /\ ret.result = "CloseError"
    /\ adapter.sockets[ret.link] = "Closed"

\* C4: between operations every non-Closed slot is named by exactly one
\* live handle, so no slot is lost to socket().
C4_NoSlotLeaked ==
    pc = "idle" => \A l \in Links : adapter.sockets[l] # "Closed" => handles[l] = 1

\* A step in which the drain applies a bytes-received notification for link l.
DataNotified(l) ==
    /\ pc \in Draining
    /\ pc' = pc
    /\ \E m \in UrcsData : /\ m.type = "DataAvailable"
                           /\ m.link = l
                           /\ adapter' = apply_urc(adapter, m)

\* A step of receive() on link l that accounts a receive-data reply.
ReplyAccounted(l) ==
    /\ pc = "receive_urc2"
    /\ cur.link = l
    /\ adapter.data # None
    /\ adapter'.data = None

\* C5 as stated: a counter grows only when a bytes-received notification for
\* its link is applied, and shrinks only when receive() on its link accounts
\* a reply; every other step leaves it unchanged.
C5_CounterFrameAsStated ==
    [][\A l \in Links :
        /\ adapter'.data_available[l] > adapter.data_available[l] => DataNotified(l)
        /\ adapter'.data_available[l] < adapter.data_available[l] => ReplyAccounted(l)]_vars

\* C5, amended: as stated, except that connect() on link l, when it returns
\* Ok after an observed Connected state, sets the counter of l to zero.
C5_CounterFrame ==
    [][\A l \in Links :
        /\ adapter'.data_available[l] > adapter.data_available[l] => DataNotified(l)
        /\ adapter'.data_available[l] < adapter.data_available[l]
            => \/ ReplyAccounted(l)
               \/ /\ pc = "connect_urc2"
                  /\ cur.link = l
                  /\ ret'.op = "connect"
                  /\ ret'.result = "Ok"
                  /\ adapter.sockets[l] = "Connected"
                  /\ adapter'.data_available[l] = 0]_vars

\* receive() on link 0 has just lowered its counter to zero while the counter
\* of link 1 stands, untouched, at its maximum.
C5_Witness ==
    /\ ret.op = "receive"
    /\ ret.result = "Ok"
    /\ ret.link = 0
    /\ cur.reply > 0
    /\ cur.before = cur.reply
    /\ adapter.data_available[0] = 0
    /\ adapter.data_available[1] = MaxAvail

\* C6: a receive-data reply of k bytes lowers data_available[link] from d
\* to d - min(k, d): to zero when k = d, and to zero, not below, when k > d.
C6_ReplyLowersCounterByMin ==
    [][\A l \in Links :
        ReplyAccounted(l) =>
            LET d == adapter.data_available[l]
                k == adapter.data[1]
            IN /\ adapter'.data_available[l] = d - MinOf(k, d)
               /\ adapter'.data_available[l] >= 0
               /\ \A o \in Links \ {l} :
                    adapter'.data_available[o] = adapter.data_available[o]]_vars

\* A reply longer than the recorded count has been accounted: the counter is 0.
C6_Witness ==
    /\ ret.op = "receive"
    /\ ret.result = "Ok"
    /\ cur.reply > cur.before
    /\ cur.before > 0
    /\ adapter.data_available[cur.link] = 0

\* C7: receive() writes within the destination: the position never passes
\* buffer.len(); every pull asks for min(space left, RX_SIZE) bytes; a reply
\* longer than the space left ends the call with ReceiveOverflow and the
\* position unmoved; Ok returns the position, the number of bytes written.
C7_ReceiveWithinCapacity ==
    /\ [](cur.position <= cur.buflen)
    /\ [](pc = "receive_urc2" =>
            /\ cmds[Len(cmds)].cmd = "ReceiveData"
            /\ cmds[Len(cmds)].len = MinOf(cur.buflen - cur.position, RX_SIZE)
            /\ cmds[Len(cmds)].len > 0)
    /\ []((ret.op = "receive" /\ ret.result = "Ok") => ret.n = cur.position)
    /\ [][\A l \in Links :
            (ReplyAccounted(l) /\ adapter.data[1] > cur.buflen - cur.position)
                => /\ ret'.result = "ReceiveOverflow"
                   /\ cur'.position = cur.position
                   /\ pc' = "idle"]_vars
    /\ [][(ret'.op = "receive" /\ ret'.result = "ReceiveOverflow" /\ ret # ret')
            => /\ pc = "receive_urc2"
               /\ adapter.data # None
               /\ adapter.data[1] > cur.buflen - cur.position]_vars

\* After a first pull that was written, the second reply was longer than
\* the space left: ReceiveOverflow, with the position where the first pull
\* left it.
C7_Witness ==
    /\ ret.op = "receive"
    /\ ret.result = "ReceiveOverflow"
    /\ cur.position > 0
    /\ cur.position < cur.buflen
    /\ cur.reply > cur.buflen - cur.position
    /\ Len(cmds) = 2

\* C8: after its drain, receive() with data_available[link] = 0 returns
\* WouldBlock with no command issued and nothing changed, and only then; a
\* receive-data command is issued only with data_available[link] > 0 and
\* space left in the destination.
C8_ReceiveNonBlocking ==
    /\ [][receive_1 =>
            IF adapter.data_available[cur.link] = 0
            THEN /\ ret'.result = "WouldBlock"
                 /\ cmds' = << >>
                 /\ adapter' = adapter
                 /\ handles' = handles
            ELSE ret'.result # "WouldBlock"]_vars
    /\ [][(ret'.result = "WouldBlock" /\ ret' # ret) => receive_1]_vars
    /\ [][(Len(cmds') > Len(cmds) /\ cmds'[Len(cmds')].cmd = "ReceiveData")
            => /\ adapter'.data_available[cur'.link] > 0
               /\ cur'.position < cur'.buflen]_vars

\* receive() returned WouldBlock although the counter of another link is not 0.
C8_Witness ==
    /\ ret.op = "receive"
    /\ ret.result = "WouldBlock"
    /\ cmds = << >>
    /\ adapter.data_available[ret.link] = 0
    /\ \E o \in Links : adapter.data_available[o] > 0

\* ceil(L / TX_SIZE), and the length of chunk i of a payload of L bytes.
NumChunks(L) == (L + TX_SIZE - 1) \div TX_SIZE
ChunkSize(L, i) == IF (i + 1) * TX_SIZE <= L THEN TX_SIZE ELSE L - i * TX_SIZE

\* The prepare/transmit cycles of the chunks 0 .. k-1 of a payload of L bytes.
RECURSIVE Cycles(_, _, _)
Cycles(link, L, k) ==
    IF k = 0 THEN << >>
    ELSE Cycles(link, L, k - 1)
         \o << Cmd("TransmissionPrepare", link, ChunkSize(L, k - 1)),
               Cmd("Transmission", link, ChunkSize(L, k - 1)) >>

IsTransfer(c) == c.cmd \in {"TransmissionPrepare", "Transmission"}
SendStateErrors == {"ClosingSocket", "SocketUnconnected"}

\* C9: send() of L bytes issues the prepare/transmit cycles of its
\* ceil(L / TX_SIZE) chunks in order; it returns Ok(L) only after every
\* chunk was confirmed; when chunk k fails, the commands issued end with
\* chunk k's (its prepare, or its prepare and payload) and the error is
\* returned.
C9_SendAllOrFail ==
    /\ []((ret.op = "send" /\ ret.result = "Ok") =>
            /\ ret.n = cur.len
            /\ cur.off = cur.len
            /\ cmds = Cycles(cur.link, cur.len, NumChunks(cur.len)))
    /\ []((ret.op = "send" /\ ret.result \notin SendStateErrors \cup {"Ok"}) =>
            LET k == cur.off \div TX_SIZE
                sent == SelectSeq(cmds, IsTransfer)
            IN /\ k < NumChunks(cur.len)
               /\ cur.off = k * TX_SIZE
               /\ \/ sent = Cycles(cur.link, cur.len, k + 1)
                  \/ sent = SubSeq(Cycles(cur.link, cur.len, k + 1), 1, 2 * k + 1))
    /\ [](pc = "send_urc2" =>
            cmds = Cycles(cur.link, cur.len, cur.off \div TX_SIZE + 1))
    /\ [][cur'.off > cur.off
            => /\ pc = "send_urc2"
               /\ adapter.send_confirmed = Some(TRUE)
               /\ cur'.off = cur.off + ChunkSize(cur.len, cur.off \div TX_SIZE)]_vars

\* A payload of three chunks, the last one short, was sent and confirmed.
C9_Witness ==
    /\ ret.op = "send"
    /\ ret.result = "Ok"
    /\ ret.n = 2 * TX_SIZE + 1
    /\ Len(cmds) = 6
    /\ cmds[6] = Cmd("Transmission", ret.link, 1)

\* The last call on the client was reset().
ResetLast(log) == Len(log) > 0 /\ log[Len(log)].cmd = "Reset"

\* C10: at the end of a drain of the confirmation wait, a send-failed
\* confirmation ends send() with SendFailed(Error) after client.reset(); a
\* send confirmation gives PartialSend if a byte count is recorded that
\* differs from the chunk length and completes the chunk otherwise, also
\* when the timer has elapsed; with no confirmation an elapsed timer ends
\* send() with SendFailed(Timeout) after client.reset(), unless the timer
\* itself fails.
C10_ConfirmTimeoutRace ==
    [][(pc = "send_urc2" /\ (pc' # pc \/ cmds' # cmds \/ cur' # cur)) =>
        LET n == ChunkSize(cur.len, cur.off \div TX_SIZE) IN
        IF adapter.send_confirmed = Some(FALSE)
        THEN /\ ret'.result = "SendFailed(Error)"
             /\ ResetLast(cmds')
             /\ pc' = "idle"
        ELSE IF adapter.send_confirmed = Some(TRUE)
        THEN IF adapter.recv_byte_count # None /\ adapter.recv_byte_count[1] # n
             THEN ret'.result = "PartialSend" /\ pc' = "idle" /\ cur'.off = cur.off
             ELSE /\ cur'.off = cur.off + n
                  /\ ret'.result \notin {"SendFailed(Error)", "SendFailed(Timeout)", "PartialSend"}
        ELSE /\ pc' = "idle"
             /\ cur'.off = cur.off
             /\ \/ ret'.result = "TimerError"
                \/ /\ ret'.result = "SendFailed(Timeout)"
                   /\ timer = "elapsed"
                   /\ ResetLast(cmds')]_vars

\* The timer had elapsed when the last chunk's confirmation was drained, and
\* send() returned Ok.
C10_Witness ==
    /\ ret.op = "send"
    /\ ret.result = "Ok"
    /\ ret.n > 0
    /\ timer = "elapsed"

\* C11: when the collision flag is set after the second drain, connect()
\* marks the slot Connected and returns Ok whatever the connect command
\* returned and whatever state the slot was observed in; the flag is false
\* when the second drain starts, it is cleared by no other step than the one
\* that issues the connect command, and it is set only by a drain, so only a
\* collision reported during this attempt's second drain makes it succeed.
C11_CollisionRecovery ==
    /\ [][(connect_2 /\ adapter.already_connected)
            => /\ ret'.result = "Ok"
               /\ adapter'.sockets[cur.link] = "Connected"]_vars
    /\ [][(pc # "connect_urc2" /\ pc' = "connect_urc2")
            => /\ pc = "connect_urc1"
               /\ ~adapter'.already_connected]_vars
    /\ [][(adapter.already_connected /\ ~adapter'.already_connected)
            => /\ pc = "connect_urc1"
               /\ pc' = "connect_urc2"]_vars
    /\ [][(~adapter.already_connected /\ adapter'.already_connected)
            => /\ pc \in Draining
               /\ pc' = pc]_vars

\* connect() returned Ok on the collision although its command failed; the
\* slot is Connected.
C11_Witness ==
    /\ ret.op = "connect"
    /\ ret.result = "Ok"
    /\ cur.res = "ConnectError"
    /\ adapter.already_connected
    /\ adapter.sockets[ret.link] = "Connected"

\* C12: without a collision, connect() returns the command's error if the
\* command failed, UnconfirmedSocketState if the command succeeded and the
\* slot is not Connected after the second drain, and Ok only if the command
\* succeeded and the slot is Connected after the second drain.
C12_DoubleConfirmation ==
    /\ [][(connect_2 /\ ~adapter.already_connected)
            => /\ cur.res # "Ok" => /\ ret'.result = cur.res
                                    /\ ret'.result \in {"ConnectError", "UnexpectedWouldBlock"}
               /\ (cur.res = "Ok" /\ adapter.sockets[cur.link] # "Connected")
                    => ret'.result = "UnconfirmedSocketState"
               /\ ret'.result = "Ok"
                    <=> (cur.res = "Ok" /\ adapter.sockets[cur.link] = "Connected")]_vars
    /\ []((ret.op = "connect" /\ ret.result = "Ok" /\ ~adapter.already_connected)
            => /\ cur.res = "Ok"
               /\ adapter.sockets[ret.link] = "Connected")

\* The connect command succeeded, the slot was closed by the remote side
\* at the end of the second drain, and connect() returned
\* UnconfirmedSocketState.
C12_Witness ==
    /\ ret.op = "connect"
    /\ ret.result = "UnconfirmedSocketState"
    /\ cur.res = "Ok"
    /\ ~adapter.already_connected
    /\ adapter.sockets[ret.link] = "Closing"

\* C13: when connect() has returned Ok, the counter of received bytes of its
\* slot is zero.
C13_ConnectResetsCounter ==
    (ret.op = "connect" /\ ret.result = "Ok") => adapter.data_available[ret.link] = 0

\* C14: join() with an ssid longer than MaxSsidLen or a key longer than
\* MaxKeyLen returns the invalid-length error and has issued no command.
C14_JoinValidatesFirst ==
    [][\A s \in SsidLens, k \in KeyLens :
        (join(s, k) /\ (s > MaxSsidLen \/ k > MaxKeyLen))
            => /\ ret'.result \in {"InvalidSSDLength", "InvalidPasswordLength"}
               /\ cmds' = << >>]_vars

\* The JoinState (connected, ip_assigned) as the number join() returns.
JoinStateOf(connected, ip) == (IF connected THEN 2 ELSE 0) + (IF ip THEN 1 ELSE 0)

\* C15: join() reaches its drain only after both commands succeeded and
\* returns Ok with (joined, ip_assigned) as the drain left them; each
\* notification the drain applies acts on the two flags as the table says:
\* station disconnected clears both, station associated sets joined,
\* address lease obtained sets ip_assigned, every other one changes neither.
C15_JoinReturnsReconciledState ==
    /\ [][(pc = "idle" /\ pc' = "join_urc")
            => cmds' = << Cmd("WifiMode", 0, 0), Cmd("AccessPointConnect", 0, 0) >>]_vars
    /\ [][pc = "join_urc" /\ pc' # pc
            => /\ pc' = "idle"
               /\ ret' = Ret("join", 0, "Ok", JoinStateOf(adapter.joined, adapter.ip_assigned))
               /\ adapter' = adapter]_vars
    /\ [][\A m \in UrcsJoin : urc(m) =>
            CASE m.type = "WifiDisconnected" ->
                    ~adapter'.joined /\ ~adapter'.ip_assigned
              [] m.type = "WifiConnected" ->
                    adapter'.joined /\ adapter'.ip_assigned = adapter.ip_assigned
              [] m.type = "ReceivedIP" ->
                    adapter'.ip_assigned /\ adapter'.joined = adapter.joined
              [] OTHER ->
                    /\ adapter'.joined = adapter.joined
                    /\ adapter'.ip_assigned = adapter.ip_assigned]_vars
    /\ [][(adapter'.joined # adapter.joined \/ adapter'.ip_assigned # adapter.ip_assigned)
            => \E m \in UrcsJoin : urc(m)]_vars

\* join() returned connected and ip_assigned.
C15_Witness ==
    /\ ret.op = "join"
    /\ ret.result = "Ok"
    /\ ret.n = JoinStateOf(TRUE, TRUE)
    /\ adapter.joined
    /\ adapter.ip_assigned

UsageErrors == {"AlreadyConnected", "ClosingSocket", "SocketUnconnected"}

\* C16: after its first drain connect() on a Connected slot returns
\* AlreadyConnected, send() on a Closing slot returns ClosingSocket and on a
\* slot that is neither Connected nor Closing returns SocketUnconnected; in
\* each case no command is issued and the adapter is unchanged; these errors
\* are returned by no other step and in no other state of the slot.
C16_UsageErrorsBeforeCommands ==
    /\ [][connect_1 =>
            IF adapter.sockets[cur.link] = "Connected"
            THEN /\ ret' = Ret("connect", cur.link, "AlreadyConnected", 0)
                 /\ cmds' = << >>
                 /\ adapter' = adapter
            ELSE ret'.result \notin UsageErrors]_vars
    /\ [][send_1 =>
            IF adapter.sockets[cur.link] = "Closing"
            THEN /\ ret' = Ret("send", cur.link, "ClosingSocket", 0)
                 /\ cmds' = << >>
                 /\ adapter' = adapter
            ELSE IF adapter.sockets[cur.link] # "Connected"
            THEN /\ ret' = Ret("send", cur.link, "SocketUnconnected", 0)
                 /\ cmds' = << >>
                 /\ adapter' = adapter
            ELSE ret'.result \notin UsageErrors]_vars
    /\ [][(ret'.result \in UsageErrors /\ ret' # ret)
            => /\ pc \in {"connect_urc1", "send_urc1"}
               /\ pc' = "idle"]_vars

\* send() on a slot the remote side has closed returned ClosingSocket, with
\* no command issued.
C16_Witness ==
    /\ ret.op = "send"
    /\ ret.result = "ClosingSocket"
    /\ cmds = << >>
    /\ adapter.sockets[ret.link] = "Closing"

\* C17: an operation starts with a drain, before it issues a command or
\* changes the adapter, and a step that issues a command ends in a drain.
C17_DrainFirstAndAfterCommands ==
    /\ [][pc = "idle" => /\ pc' \in Draining
                         /\ cmds' = << >>
                         /\ adapter' = adapter]_vars
    /\ [][(cmds' # cmds /\ cmds' # << >>) => pc' \in Draining]_vars

\* C18: after the first drain close() on a slot that is Open or Closing
\* issues no command and returns Ok; otherwise it issues the close command,
\* once, and after the second drain returns the command's error if it
\* failed, Ok if the slot is Closing and UnconfirmedSocketState if not.
C18_CloseProtocol ==
    /\ [][close_1 =>
            IF adapter.sockets[cur.link] \in {"Open", "Closing"}
            THEN /\ ret' = Ret("close", cur.link, "Ok", 0)
                 /\ cmds' = << >>
                 /\ pc' = "idle"
            ELSE /\ cmds' = << Cmd("CloseSocket", cur.link, 0) >>
                 /\ pc' = "close_urc2"
                 /\ ret' = NoRet]_vars
    /\ [][close_2 =>
            /\ cmds' = cmds
            /\ cmds = << Cmd("CloseSocket", cur.link, 0) >>
            /\ pc' = "idle"
            /\ ret'.op = "close"
            /\ ret'.result =
                    IF cur.res # "Ok" THEN cur.res
                    ELSE IF adapter.sockets[cur.link] = "Closing" THEN "Ok"
                    ELSE "UnconfirmedSocketState"]_vars
    /\ [](pc = "close_urc2" => cur.res \in {"Ok", "CloseError", "UnexpectedWouldBlock"})
    /\ [][(ret'.op = "close" /\ ret' # ret) => (close_1 \/ close_2)]_vars

\* close() sent the close command, it succeeded, the slot was not seen
\* Closing after the second drain: UnconfirmedSocketState.
C18_Witness ==
    /\ ret.op = "close"
    /\ ret.result = "UnconfirmedSocketState"
    /\ cur.res = "Ok"
    /\ cmds = << Cmd("CloseSocket", ret.link, 0) >>

\* C20: a send() call that has started returns, whatever notifications
\* arrive or fail to arrive, provided the countdown timer elapses (the
\* fairness of timer_elapses in the specification) and each drain ends:
\* a poll finds no notification and the code after the drain runs (a
\* failure of the timer is not forced).
C20_SendReturns ==
    (WF_vars(send_1) /\ WF_vars(send_2 /\ ret'.result # "TimerError"))
        => ((pc \in {"send_urc1", "send_urc2"}) ~> (pc = "idle" /\ ret.op = "send"))

\* The confirmation wait of a second chunk ended by the timeout while no
\* confirmation was recorded.
C20_Witness ==
    /\ ret.op = "send"
    /\ ret.result = "SendFailed(Timeout)"
    /\ cur.off > 0
    /\ adapter.send_confirmed = None
    /\ timer = "stopped"

\* A socket() step that sends the enable-multiple-connections command, and a
\* connect() step that passes the state check and sends the
\* enable-passive-receive-mode command.
IssuesMulti == socket /\ cmds' # << >>
IssuesPassive ==
    /\ connect_1
    /\ cmds' # << >>
    /\ cmds'[1].cmd = "SetSocketReceivingMode"

\* What C19 says next to 'exactly once': a slot is handed out only with
\* multiple connections enabled, the connect command is issued only with
\* passive mode enabled, and a failed enabling command ends the call with
\* its error, no slot allocated and no connect command issued.
SetupGuardsOperations ==
    /\ [](LiveHandles # {} => adapter.multi_connections_enabled)
    /\ [][(socket /\ ret'.result = "Ok") => adapter'.multi_connections_enabled]_vars
    /\ [](pc = "connect_urc2" => adapter.passive_mode_enabled)
    /\ [][(IssuesMulti /\ ~adapter'.multi_connections_enabled)
            => /\ ret'.result \in {"EnablingMultiConnectionsFailed", "UnexpectedWouldBlock"}
               /\ handles' = handles
               /\ adapter' = adapter]_vars
    /\ [][(IssuesPassive /\ ~adapter'.passive_mode_enabled)
            => /\ ret'.result \in {"EnablingPassiveSocketModeFailed", "UnexpectedWouldBlock"}
               /\ pc' = "idle"
               /\ cmds' = << Cmd("SetSocketReceivingMode", 0, 0) >>
               /\ adapter' = adapter]_vars

\* C19 as stated: each mode-setup command is issued exactly once, by the
\* first socket() call and by the first connect() that passes the state
\* check: a step that issues one never finds that it was issued before.
C19_SetupIssuedOnce ==
    /\ [][IssuesMulti => /\ ~adapter.multi_connections_enabled
                         /\ "SetMultipleConnections" \notin setup_failed]_vars
    /\ [][IssuesPassive => /\ ~adapter.passive_mode_enabled
                           /\ "SetSocketReceivingMode" \notin setup_failed]_vars
    /\ SetupGuardsOperations

\* C19, amended: each mode-setup command is issued by every socket() call,
\* or connect() that passes the state check, made while its flag is not
\* set, and by no other step; the flag is set exactly when the command
\* succeeds and stays set; the rest as stated.
C19_SetupIssuedUntilEnabled ==
    /\ [][socket => (IssuesMulti <=> ~adapter.multi_connections_enabled)]_vars
    /\ [][(connect_1 /\ adapter.sockets[cur.link] # "Connected")
            => (IssuesPassive <=> ~adapter.passive_mode_enabled)]_vars
    /\ [][(cmds' # cmds /\ \E i \in 1 .. Len(cmds') :
                cmds'[i].cmd \in {"SetMultipleConnections", "SetSocketReceivingMode"})
            => (IssuesMulti \/ IssuesPassive)]_vars
    /\ [][IssuesMulti => (adapter'.multi_connections_enabled <=> ret'.result
                            \notin {"EnablingMultiConnectionsFailed", "UnexpectedWouldBlock"})]_vars
    /\ [][IssuesPassive => (adapter'.passive_mode_enabled <=> pc' = "connect_urc2")]_vars
    /\ [][adapter.multi_connections_enabled => adapter'.multi_connections_enabled]_vars
    /\ [][adapter.passive_mode_enabled => adapter'.passive_mode_enabled]_vars
    /\ SetupGuardsOperations

\* connect() returned the error of the enable-passive-receive-mode command:
\* no connect command was issued, the flag is not set and the command is
\* left for the next connect().
C19_Witness ==
    /\ ret.op = "connect"
    /\ ret.result = "EnablingPassiveSocketModeFailed"
    /\ cmds = << Cmd("SetSocketReceivingMode", 0, 0) >>
    /\ adapter.multi_connections_enabled
    /\ ~adapter.passive_mode_enabled
    /\ "SetSocketReceivingMode" \in setup_failed

\* C23: when connect() has returned, its result agrees with the slot: after
\* Ok the slot is Connected, and after an error of the connect command, of
\* the enabling command or UnconfirmedSocketState the slot is not Connected,
\* so that a retry passes the state check.  (The rejection AlreadyConnected
\* itself reports a Connected slot.)
C23_ConnectResultMatchesState ==
    ret.op = "connect" =>
        /\ ret.result = "Ok" => adapter.sockets[ret.link] = "Connected"
        /\ ret.result \notin {"Ok", "AlreadyConnected"}
            => adapter.sockets[ret.link] # "Connected"

\* C21: a receive() call that has started returns, whatever the module
\* replies to its receive-data commands; stated for the calls each of whose
\* drains ends (a poll finds no notification and the code after the drain
\* runs), so that only the replies can keep the call from returning.
C21_ReceiveTerminates ==
    (WF_vars(receive_1) /\ WF_vars(receive_2))
        => ((pc \in {"receive_urc1", "receive_urc2"}) ~> (pc = "idle"))

\* C22: when the confirmation wait of a chunk ends by a report (send
\* confirmed or send failed), the report is the one the module emitted for
\* this chunk's payload command: every payload command accepted before it
\* has been reported on, so none of the drained reports was left over from
\* an earlier chunk or an earlier send().
C22_OutcomeFromOwnReport ==
    [][(pc = "send_urc2" /\ adapter.send_confirmed # None /\ (pc' # pc \/ cur' # cur))
        => unanswered = 0]_vars

====
